---- MODULE Spec2Model ----
(***************************************************************************)
(* A model of clean (src/main.go): a command-line utility that trims       *)
(* trailing whitespace and converts leading tabs/spaces in text files.     *)
(*                                                                         *)
(* Go strings and []uint8 are sequences of byte values (0..255).  The      *)
(* flag variables of the program are the global variables of the model.    *)
(* I/O is assumed to succeed (the program discards every I/O error).       *)
(* A negative -ts makes strings.Repeat panic; tab sizes are >= 0 here.     *)
(*                                                                         *)
(* Spec      is a whole run of main on a small file system.                *)
(* SpecClean is the run `clean [flags] f f` on a larger text file f: the   *)
(*           loop of main calling cleanFile on the same file twice.        *)
(* SpecLine  applies expandTabs and contractTabs to a line.                *)
(***************************************************************************)
EXTENDS Integers, Sequences, FiniteSets, TLC

(* ------------------------------ bounds --------------------------------- *)
\* longest file (in bytes) of a whole run of the program
MaxFileLen == 2
\* longest text file (in bytes) of a run that cleans one file twice
MaxLen == 4
\* most positional arguments on the command line
MaxArgs == 2
\* largest -ts value on the command line
MaxTab == 2
\* longest line handed to the line functions on their own
MaxLine == 4

(* ------------------------- program constants --------------------------- *)
TAB == 9
NL == 10
SPACE == 32
\* lowest and highest byte isText accepts
LowText == 9
HighText == 126
\* isText reads at most this many bytes
ReadSize == 1024
\* default of -ts
DefaultTabSize == 4

\* the bytes just outside the range isText accepts
CtrlByte == LowText - 1
DelByte == HighText + 1

\* "f" is a regular file, "o" is a directory or does not exist
Paths == {"f", "o"}
FileBytes == {CtrlByte, TAB, NL, SPACE, HighText, DelByte}
TextBytes == {TAB, NL, SPACE, HighText}
\* A line may hold bytes above 0x7E: isText looks at the first 1024 bytes of a
\* file only.  195, 169 is the UTF-8 encoding of U+00E9.
LineBytes == {TAB, SPACE, HighText, 195, 169}
TabSizes == 0..MaxTab
\* -ts on the command line of a whole run: given as 1, or left at its default
ParseTabSizes == {1, DefaultTabSize}

RECURSIVE SeqsUpTo(_, _)
SeqsUpTo(S, n) ==
    IF n = 0 THEN {<<>>}
    ELSE LET shorter == SeqsUpTo(S, n - 1)
         IN  shorter \cup {Append(s, b) : s \in {t \in shorter : Len(t) = n - 1}, b \in S}

VARIABLES
    expandTabsFlag,          \* -e
    contractTabsFlag,        \* -c
    tabSize,                 \* -ts
    trailingNewlineFlag,     \* -t
    addTrailingNewlineFlag,  \* -at
    helpFlag,                \* -h
    args,                    \* flag.Args(): the positional arguments
    fs,                      \* the file system: path -> [kind, data]
    pc,                      \* where main is: "start", "parsed", "exited"
    next,                    \* index in args of the next file of main's loop
    trims,                   \* main's running total of trimmed lines
    tabs,                    \* main's running total of tab-adjusted lines
    stdout,                  \* what was printed, one entry per Printf/Println
    status,                  \* exit status, -1 while running
    opened,                  \* paths whose contents were read (Open, ReadFile)
    writes,                  \* the WriteFile calls made: <<filename, data>>
    fn,                      \* main's loop variable: the file just processed
    trs,                     \* main's trs: lines trimmed in fn
    tas,                     \* main's tas: lines tab-adjusted in fn
    str,                     \* line functions on their own: the input line
    res,                     \* line functions on their own: the result
    lpc                      \* line functions on their own: what was applied

flags == <<expandTabsFlag, contractTabsFlag, tabSize, trailingNewlineFlag,
           addTrailingNewlineFlag, helpFlag>>
progVars == <<args, fs, pc, next, trims, tabs, stdout, status, opened, writes,
              fn, trs, tas>>
lineVars == <<str, res, lpc>>
vars == <<flags, progVars, lineVars>>

(* --------------------------- library functions ------------------------- *)
\* strings.Repeat of a one-byte string
Repeat(b, n) == [i \in 1..n |-> b]

HasPrefix(s, prefix) ==
    /\ Len(s) >= Len(prefix)
    /\ SubSeq(s, 1, Len(prefix)) = prefix

\* strings.TrimRight(s, " \t")
RECURSIVE TrimRight(_)
TrimRight(s) ==
    IF Len(s) > 0 /\ s[Len(s)] \in {SPACE, TAB}
    THEN TrimRight(SubSeq(s, 1, Len(s) - 1))
    ELSE s

\* strings.Split(s, "\n", -1): always at least one element
RECURSIVE SplitFrom(_, _, _)
SplitFrom(s, i, cur) ==
    IF i > Len(s) THEN <<cur>>
    ELSE IF s[i] = NL THEN <<cur>> \o SplitFrom(s, i + 1, <<>>)
    ELSE SplitFrom(s, i + 1, Append(cur, s[i]))

Split(s) == SplitFrom(s, 1, <<>>)

IsCont(s, i) == i <= Len(s) /\ s[i] >= 128 /\ s[i] <= 191

\* The number of bytes `for i := range str` advances by at (1-based) index i:
\* the width of the UTF-8 sequence starting there, 1 for a byte that starts
\* no well-formed sequence.
RuneWidth(s, i) ==
    IF s[i] < 128 THEN 1
    ELSE IF s[i] >= 194 /\ s[i] <= 223 /\ IsCont(s, i + 1) THEN 2
    ELSE IF s[i] >= 224 /\ s[i] <= 239 /\ IsCont(s, i + 1) /\ IsCont(s, i + 2)
            /\ (s[i] = 224 => s[i + 1] >= 160) THEN 3
    ELSE IF s[i] >= 240 /\ s[i] <= 247 /\ IsCont(s, i + 1) /\ IsCont(s, i + 2)
            /\ IsCont(s, i + 3) /\ (s[i] = 240 => s[i + 1] >= 144) THEN 4
    ELSE 1

(* ----------------------------- line functions -------------------------- *)
\* one pass of expandTabs' loop body and the rest of the loop
RECURSIVE expandLoop(_, _, _, _)
expandLoop(s, i, start, result) ==
    IF i > Len(s) THEN result
    ELSE IF start /\ s[i] = TAB
         THEN expandLoop(s, i + RuneWidth(s, i), TRUE, result \o Repeat(SPACE, tabSize))
         ELSE expandLoop(s, i + RuneWidth(s, i), FALSE, Append(result, s[i]))

expandTabs(s) == expandLoop(s, 1, TRUE, <<>>)

chompTab(s) ==
    IF Len(s) < tabSize THEN s
    ELSE IF HasPrefix(s, Repeat(SPACE, tabSize)) THEN SubSeq(s, tabSize + 1, Len(s))
    ELSE s

RECURSIVE contractLoop(_, _)
contractLoop(s, tabsChomped) ==
    LET chomped == chompTab(s)
    IN  IF Len(chomped) # Len(s)
        THEN contractLoop(chomped, tabsChomped + 1)
        ELSE Repeat(TAB, tabsChomped) \o chomped

contractTabs(s) == contractLoop(s, 0)

(* ------------------------------- cleanFile ----------------------------- *)
removeTrailingNewlines(lines) ==
    LET nonEmpty == {i \in 1..Len(lines) : lines[i] # <<>>}
        empties == IF nonEmpty = {} THEN Len(lines)
                   ELSE Len(lines) - (CHOOSE i \in nonEmpty : \A j \in nonEmpty : j <= i)
    IN  SubSeq(lines, 1, Len(lines) - empties)

\* the contents without their last newline, split into lines
readLines(contents) ==
    Split(IF contents[Len(contents)] = NL
          THEN SubSeq(contents, 1, Len(contents) - 1)
          ELSE contents)

\* -at: an empty line after a non-empty last line
addTrailingNewline(lines) ==
    IF addTrailingNewlineFlag /\ lines[Len(lines)] # <<>>
    THEN Append(lines, <<>>)
    ELSE lines

\* -t: no empty lines at the end
stripTrailingNewlines(lines) ==
    IF trailingNewlineFlag THEN removeTrailingNewlines(lines) ELSE lines

\* the notices the trailing-newline policy prints for the lines read
policyNotices(lines) ==
    (IF addTrailingNewline(lines) # lines
     THEN <<<<"Added trailing newline.">>>> ELSE <<>>)
    \o (IF Len(stripTrailingNewlines(addTrailingNewline(lines)))
            # Len(addTrailingNewline(lines))
        THEN <<<<"Removed trailing newlines.">>>> ELSE <<>>)

\* the leading-whitespace conversion the flags select
convert(ts) ==
    IF contractTabsFlag THEN contractTabs(ts)
    ELSE IF expandTabsFlag THEN expandTabs(ts)
    ELSE ts

\* the count taking only a longer line as tab-adjusted
tabAdjustedLonger(ts, lts) == Len(ts) > lts

\* whether the loop counts the line as tab-adjusted: lts is the trimmed length
tabAdjusted(ts, lts) == Len(ts) # lts

\* the lines joined by newlines, none after the last
emitJoined(output, ts) == IF output = <<>> THEN ts ELSE output \o <<NL>> \o ts

\* the loop's output after one more line
emitLine(output, ts) == output \o ts \o <<NL>>

\* the loop over the lines, from line i on
RECURSIVE cleanLoop(_, _, _, _, _)
cleanLoop(lines, i, output, trimmed, tabbed) ==
    IF i > Len(lines)
    THEN [output |-> output, trimmed |-> trimmed, tabs |-> tabbed]
    ELSE LET ts == TrimRight(lines[i])
             converted == convert(ts)
         IN  cleanLoop(lines, i + 1, emitLine(output, converted),
                       IF Len(ts) < Len(lines[i]) THEN trimmed + 1 ELSE trimmed,
                       IF tabAdjusted(converted, Len(ts)) THEN tabbed + 1 ELSE tabbed)

\* cleanFile on the contents read: what it writes (if it does), returns and prints
cleanFile(contents) ==
    IF Len(contents) = 0
    THEN [wrote |-> FALSE, output |-> contents, trimmed |-> 0, tabs |-> 0, notices |-> <<>>]
    ELSE LET lines == readLines(contents)
             r == cleanLoop(stripTrailingNewlines(addTrailingNewline(lines)), 1, <<>>, 0, 0)
         IN  [wrote |-> TRUE, output |-> r.output, trimmed |-> r.trimmed,
              tabs |-> r.tabs, notices |-> policyNotices(lines)]

(* ------------------------------ processFile ---------------------------- *)
isRegular(f) == fs[f].kind = "regular"

\* isText with its upper test off by one
isBinaryByteOffByOne(b) == b > HighText + 1 \/ b < LowText

isBinaryByte(b) == b > HighText \/ b < LowText

isText(f) ==
    LET contents == fs[f].data
        n == IF Len(contents) < ReadSize THEN Len(contents) ELSE ReadSize
    IN  \A i \in 0..(n - 1) : ~isBinaryByte(contents[i + 1])

pluralize(s, n) == IF n = 1 THEN s ELSE s \o "s"

\* the line logModifications prints
logModifications(f, ntrims, ntabs) ==
    <<"Fixed", ntrims, pluralize("line", ntrims)>>
    \o (IF ntabs > 0 THEN <<"and", ntabs, pluralize("tab", ntabs)>> ELSE <<>>)
    \o (IF f # "" THEN <<"in", f>> ELSE <<>>)

\* processFile without its isRegular test
processFileNoStat(f) ==
    IF isText(f)
    THEN LET r == cleanFile(fs[f].data)
         IN  [trims |-> r.trimmed, tabs |-> r.tabs, out |-> r.notices,
              opened |-> {f},
              written |-> IF r.wrote THEN <<<<f, r.output>>>> ELSE <<>>]
    ELSE [trims |-> 0, tabs |-> 0, out |-> <<<<"Didn't clean binary file", f>>>>,
          opened |-> {f}, written |-> <<>>]

\* processFile: what it returns, prints, reads and writes
processFile(f) ==
    IF ~isRegular(f)
    THEN [trims |-> 0, tabs |-> 0, out |-> <<<<"Couldn't clean", f>>>>,
          opened |-> {}, written |-> <<>>]
    ELSE IF isText(f)
    THEN LET r == cleanFile(fs[f].data)
         IN  [trims |-> r.trimmed, tabs |-> r.tabs, out |-> r.notices,
              opened |-> {f},
              written |-> IF r.wrote THEN <<<<f, r.output>>>> ELSE <<>>]
    ELSE [trims |-> 0, tabs |-> 0, out |-> <<<<"Didn't clean binary file", f>>>>,
          opened |-> {f}, written |-> <<>>]

(* ---------------------------------- main ------------------------------- *)
ArgLists == SeqsUpTo(Paths, MaxArgs)
Contents == SeqsUpTo(FileBytes, MaxFileLen)
TextContents == SeqsUpTo(TextBytes, MaxLen)
Lines == SeqsUpTo(LineBytes, MaxLine)

FileSystem(data, kind) ==
    [p \in Paths |->
        IF p = "f" THEN [kind |-> "regular", data |-> data]
        ELSE [kind |-> kind, data |-> <<>>]]

\* main testing the wrong flag
ConflictingWrongFlag == contractTabsFlag /\ trailingNewlineFlag

Conflicting == contractTabsFlag /\ expandTabsFlag

\* ioutil.WriteFile: the file system after the writes of one processFile call
fsAfter(written) ==
    IF written = <<>> THEN fs
    ELSE [fs EXCEPT ![written[1][1]].data = written[1][2]]

InitFlags ==
    /\ expandTabsFlag = FALSE
    /\ contractTabsFlag = FALSE
    /\ tabSize = DefaultTabSize
    /\ trailingNewlineFlag = FALSE
    /\ addTrailingNewlineFlag = FALSE
    /\ helpFlag = FALSE

InitProg ==
    /\ args = <<>>
    /\ pc = "start"
    /\ next = 1
    /\ trims = 0
    /\ tabs = 0
    /\ stdout = <<>>
    /\ status = -1
    /\ opened = {}
    /\ writes = <<>>
    /\ fn = ""
    /\ trs = 0
    /\ tas = 0

IdleLine ==
    /\ str = <<>>
    /\ res = <<>>
    /\ lpc = "off"

Init ==
    /\ InitFlags
    /\ InitProg
    /\ IdleLine
    /\ \E data \in Contents, kind \in {"dir", "missing"} :
          fs = FileSystem(data, kind)

\* flag.Parse(): the flags and positional arguments of the command line
Parse ==
    /\ pc = "start"
    /\ expandTabsFlag' \in BOOLEAN
    /\ contractTabsFlag' \in BOOLEAN
    /\ tabSize' \in ParseTabSizes
    /\ trailingNewlineFlag' \in BOOLEAN
    /\ addTrailingNewlineFlag' \in BOOLEAN
    /\ helpFlag' \in BOOLEAN
    /\ args' \in ArgLists
    /\ pc' = "parsed"
    /\ UNCHANGED <<fs, next, trims, tabs, stdout, status, opened, writes, fn, trs, tas>>
    /\ UNCHANGED lineVars

Exit(code) ==
    /\ pc' = "exited"
    /\ status' = code

\* -h: usage (on standard error), and main returns
Help ==
    /\ pc = "parsed"
    /\ helpFlag
    /\ stdout' = Append(stdout, <<"Usage">>)
    /\ Exit(0)
    /\ UNCHANGED <<flags, args, fs, next, trims, tabs, opened, writes, fn, trs, tas>>
    /\ UNCHANGED lineVars

\* -c with -e
Conflict ==
    /\ pc = "parsed"
    /\ ~helpFlag
    /\ Conflicting
    /\ stdout' = Append(stdout, <<"Can't contract and expand tabs.">>)
    /\ Exit(1)
    /\ UNCHANGED <<flags, args, fs, next, trims, tabs, opened, writes, fn, trs, tas>>
    /\ UNCHANGED lineVars

NoFiles ==
    /\ pc = "parsed"
    /\ ~helpFlag
    /\ ~Conflicting
    /\ Len(args) = 0
    /\ stdout' = Append(stdout, <<"No files to work on.">>)
    /\ Exit(0)
    /\ UNCHANGED <<flags, args, fs, next, trims, tabs, opened, writes, fn, trs, tas>>
    /\ UNCHANGED lineVars

\* one pass of main's loop over flag.Args()
ProcessNext ==
    /\ pc = "parsed"
    /\ ~helpFlag
    /\ ~Conflicting
    /\ next <= Len(args)
    /\ \E r \in {processFile(args[next])} :
           /\ fn' = args[next]
           /\ trs' = r.trims
           /\ tas' = r.tabs
           /\ fs' = fsAfter(r.written)
           /\ opened' = opened \cup r.opened
           /\ writes' = writes \o r.written
           /\ stdout' = stdout \o r.out
                          \o <<logModifications(args[next], r.trims, r.tabs)>>
           /\ trims' = trims + r.trims
           /\ tabs' = tabs + r.tabs
    /\ next' = next + 1
    /\ UNCHANGED <<flags, args, pc, status>>
    /\ UNCHANGED lineVars

\* after the loop: the aggregate line, and main returns
Finish ==
    /\ pc = "parsed"
    /\ ~helpFlag
    /\ ~Conflicting
    /\ Len(args) # 0
    /\ next > Len(args)
    /\ stdout' = Append(stdout, logModifications("", trims, tabs))
    /\ Exit(0)
    /\ UNCHANGED <<flags, args, fs, next, trims, tabs, opened, writes, fn, trs, tas>>
    /\ UNCHANGED lineVars

Next ==
    \/ Parse
    \/ Help
    \/ Conflict
    \/ NoFiles
    \/ ProcessNext
    \/ Finish

Spec == Init /\ [][Next]_vars

(* ------------- the run `clean [flags] f f` on a larger text file -------- *)
InitClean ==
    /\ \E data \in TextContents : fs = FileSystem(data, "missing")
    /\ expandTabsFlag \in BOOLEAN
    /\ contractTabsFlag \in BOOLEAN
    /\ ~Conflicting
    /\ tabSize \in TabSizes
    /\ trailingNewlineFlag \in BOOLEAN
    /\ addTrailingNewlineFlag \in BOOLEAN
    /\ helpFlag = FALSE
    /\ args = <<"f", "f">>
    /\ pc = "parsed"
    /\ next = 1
    /\ trims = 0
    /\ tabs = 0
    /\ stdout = <<>>
    /\ status = -1
    /\ opened = {}
    /\ writes = <<>>
    /\ fn = ""
    /\ trs = 0
    /\ tas = 0
    /\ IdleLine

NextClean ==
    \/ ProcessNext
    \/ Finish

SpecClean == InitClean /\ [][NextClean]_vars

(* ------------------- the line functions on their own ------------------- *)
InitLine ==
    /\ expandTabsFlag = FALSE
    /\ contractTabsFlag = FALSE
    /\ tabSize \in TabSizes
    /\ trailingNewlineFlag = FALSE
    /\ addTrailingNewlineFlag = FALSE
    /\ helpFlag = FALSE
    /\ InitProg
    /\ fs = FileSystem(<<>>, "missing")
    /\ str \in Lines
    /\ res = str
    /\ lpc = "in"

Expand ==
    /\ lpc = "in"
    /\ res' = expandTabs(res)
    /\ lpc' = "expanded"
    /\ UNCHANGED <<flags, progVars, str>>

Contract ==
    /\ lpc \in {"in", "expanded"}
    /\ res' = contractTabs(res)
    /\ lpc' = IF lpc = "in" THEN "contracted" ELSE "roundtrip"
    /\ UNCHANGED <<flags, progVars, str>>

NextLine ==
    \/ Expand
    \/ Contract

SpecLine == InitLine /\ [][NextLine]_vars


(* =============================== claims ================================ *)
\* a step of main's loop: only ProcessNext moves next
LoopStep == next' = next + 1

\* what logModifications prints for a file in which nothing was counted
NothingFixed(f) == <<"Fixed", 0, "lines", "in", f>>

\* a byte in 0x00-0x08 or >= 0x7F among the first 1024 bytes
HasBinaryByte(data) ==
    \E i \in 1..Len(data) : i <= 1024 /\ (data[i] <= 8 \/ data[i] >= 127)

\* no line of the data ends in a space or a tab, and the last line is terminated
Trimmed(data) ==
    /\ data # <<>> => data[Len(data)] = NL
    /\ \A i \in 1..Len(data) :
          data[i] = NL /\ i > 1 => data[i - 1] \notin {SPACE, TAB}

\* C1: in every flag configuration, processFile on a regular file with a byte
\* in 0x00-0x08 or >= 0x7F within its first 1024 bytes leaves the file system
\* as it was, writes nothing, reports the file as binary and returns 0 trimmed
\* and 0 tab-adjusted lines.
C1_BinaryNeverRewritten ==
    [][(LoopStep /\ fs[args[next]].kind = "regular"
                 /\ HasBinaryByte(fs[args[next]].data))
       => /\ fs' = fs
          /\ writes' = writes
          /\ trs' = 0 /\ tas' = 0
          /\ trims' = trims /\ tabs' = tabs
          /\ stdout' = stdout \o << <<"Didn't clean binary file", args[next]>>,
                                    NothingFixed(args[next]) >>]_vars

\* a file whose second byte is the first binary one was reported, under -e -t
C1_Witness ==
    /\ fn = "f"
    /\ Len(fs["f"].data) = 2
    /\ fs["f"].data[1] = HighText
    /\ fs["f"].data[2] = DelByte
    /\ expandTabsFlag /\ trailingNewlineFlag
    /\ stdout = << <<"Didn't clean binary file", "f">>, NothingFixed("f") >>

\* the files named by the per-file lines printed so far, in order
RECURSIVE Reported(_)
Reported(out) ==
    IF out = <<>> THEN <<>>
    ELSE LET m == out[Len(out)]
             before == Reported(SubSeq(out, 1, Len(out) - 1))
         IN  IF m[1] = "Fixed" /\ (Len(m) = 8 \/ (Len(m) = 5 /\ m[4] = "in"))
             THEN Append(before, m[Len(m)])
             ELSE before

\* C2: a path that is missing or not a regular file is reported as "Couldn't
\* clean", nothing is read or written, it adds 0 to both counts and the run
\* goes on; a regular text file is read and left trimmed whatever else is in the
\* list; and a run that went through the loop ends having reported every
\* argument, in order.
C2_NonRegularSkipped ==
    /\ [][LoopStep =>
            /\ fs[args[next]].kind # "regular" =>
                  /\ fs' = fs /\ writes' = writes /\ opened' = opened
                  /\ trs' = 0 /\ tas' = 0
                  /\ trims' = trims /\ tabs' = tabs
                  /\ stdout' = stdout \o << <<"Couldn't clean", args[next]>>,
                                            NothingFixed(args[next]) >>
                  /\ pc' = "parsed" /\ status' = -1
            /\ (fs[args[next]].kind = "regular" /\ ~HasBinaryByte(fs[args[next]].data)) =>
                  /\ args[next] \in opened'
                  /\ Trimmed(fs'[args[next]].data)
                  /\ pc' = "parsed"]_vars
    /\ [](pc = "parsed" => Reported(stdout) = SubSeq(args, 1, next - 1))
    /\ []((pc = "exited" /\ ~helpFlag /\ ~(expandTabsFlag /\ contractTabsFlag))
             => Reported(stdout) = args)

\* after a missing path, the text file behind it in the list was rewritten
C2_Witness ==
    /\ pc = "exited"
    /\ args = <<"o", "f">>
    /\ fs["o"].kind = "missing"
    /\ stdout[1] = <<"Couldn't clean", "o">>
    /\ writes = << <<"f", <<HighText, NL>> >> >>
    /\ trims = 1

\* C3 as stated: whenever -e and -c are both given, the run ends with the
\* conflict message and status 1, no file read or written.
C3_ConflictAlwaysFatal ==
    (pc = "exited" /\ expandTabsFlag /\ contractTabsFlag)
        => /\ status = 1
           /\ stdout = << <<"Can't contract and expand tabs.">> >>
           /\ opened = {} /\ writes = <<>>

\* C3, amended: with -e and -c both given no file is ever read or written and
\* the loop is never entered; unless -h is given too, the run ends with the
\* conflict message alone and status 1; with -h it ends with the usage text
\* and status 0.
C3_ConflictFatalUnlessHelp ==
    (expandTabsFlag /\ contractTabsFlag)
        => /\ opened = {} /\ writes = <<>> /\ next = 1
           /\ pc = "exited" =>
                 IF helpFlag
                 THEN status = 0 /\ stdout = << <<"Usage">> >>
                 ELSE status = 1 /\ stdout = << <<"Can't contract and expand tabs.">> >>

\* -e -c -t -at with two arguments and a file that a run would have changed
C3_Witness ==
    /\ pc = "exited"
    /\ status = 1
    /\ expandTabsFlag /\ contractTabsFlag /\ ~helpFlag
    /\ args = <<"f", "o">>
    /\ fs["f"].data = <<TAB, SPACE>>


\* the last line of a non-empty file, as cleanFile reads it
LastLine(data) == readLines(data)[Len(readLines(data))]

\* the data ends in a newline that follows a byte other than a newline
EndsInOneNewline(data) ==
    /\ Len(data) >= 2
    /\ data[Len(data)] = NL
    /\ data[Len(data) - 1] # NL

\* C4 as stated: with -at and without -t, cleaning a non-empty text file whose
\* last line is non-empty (here: holds more than spaces and tabs) leaves a file
\* that ends in exactly one newline after its last non-empty line.
C4_SingleTrailingNewline ==
    [][(LoopStep /\ addTrailingNewlineFlag /\ ~trailingNewlineFlag
                 /\ fs[args[next]].data # <<>>
                 /\ TrimRight(LastLine(fs[args[next]].data)) # <<>>)
       => EndsInOneNewline(fs'[args[next]].data)]_vars

\* C5 as stated: with -t and without -at, cleaning a non-empty text file leaves
\* a file with no blank line at its end: it is empty or its last line is
\* non-empty.
C5_NoTrailingBlankLine ==
    [][(LoopStep /\ trailingNewlineFlag /\ ~addTrailingNewlineFlag
                 /\ fs[args[next]].data # <<>>)
       => \/ fs'[args[next]].data = <<>>
          \/ EndsInOneNewline(fs'[args[next]].data)]_vars

\* C7 as stated: whatever cleanFile writes is non-empty and ends with a newline.
C7_WrittenEndsWithNewline ==
    \A i \in 1..Len(writes) :
       /\ writes[i][2] # <<>>
       /\ writes[i][2][Len(writes[i][2])] = NL

\* C7, amended: whatever cleanFile writes becomes the file's contents and ends
\* with a newline, except that it is empty when -t is set and the file held
\* nothing but newlines.
C7_WrittenLinesTerminated ==
    [][(LoopStep /\ writes' # writes)
       => LET old == fs[args[next]].data
              new == writes'[Len(writes')][2]
          IN  /\ Len(writes') = Len(writes) + 1
              /\ writes'[Len(writes')][1] = args[next]
              /\ fs'[args[next]].data = new
              /\ IF trailingNewlineFlag /\ \A i \in 1..Len(old) : old[i] = NL
                 THEN new = <<>>
                 ELSE new # <<>> /\ new[Len(new)] = NL]_vars

\* -t: a first run wrote one empty line, the second run wrote the file empty
C7_Witness ==
    /\ Len(writes) = 2
    /\ writes[1][2] = <<NL>>
    /\ writes[2][2] = <<>>
    /\ fs["f"].data = <<>>

\* C9 as stated: with a tab size >= 1 and at most one of -e and -c, cleaning
\* the file a second time with the same flags leaves its contents as the first
\* run wrote them and counts 0 trimmed and 0 tab-adjusted lines.
C9_SecondRunChangesNothing ==
    [][(LoopStep /\ next = 2 /\ args[1] = args[2] /\ tabSize >= 1)
       => /\ fs' = fs
          /\ trs' = 0
          /\ tas' = 0]_vars

\* the lines cleanFile's loop goes over for the contents
LoopLines(data) == stripTrailingNewlines(addTrailingNewline(readLines(data)))

\* C10 as stated: in expand and in contract mode, with a tab size >= 1, tas is
\* the number of lines whose converted text differs from the trimmed line.
C10_CountsChangedLines ==
    [][(LoopStep /\ tabSize >= 1 /\ (expandTabsFlag \/ contractTabsFlag)
                 /\ fs[args[next]].data # <<>>)
       => LET lines == LoopLines(fs[args[next]].data)
          IN  tas' = Cardinality({i \in 1..Len(lines) :
                        convert(TrimRight(lines[i])) # TrimRight(lines[i])})]_vars

\* C10, amended: in expand and in contract mode, with a tab size >= 1, tas is
\* the number of lines whose length the conversion changed.
C10_CountsResizedLines ==
    [][(LoopStep /\ tabSize >= 1 /\ (expandTabsFlag \/ contractTabsFlag)
                 /\ fs[args[next]].data # <<>>)
       => LET lines == LoopLines(fs[args[next]].data)
          IN  tas' = Cardinality({i \in 1..Len(lines) :
                        Len(convert(TrimRight(lines[i]))) # Len(TrimRight(lines[i]))})]_vars

\* -c -ts 2: of two lines, only the one that starts with two spaces was counted
C10_Witness ==
    /\ contractTabsFlag /\ tabSize = 2
    /\ next = 2
    /\ tas = 1
    /\ writes = << <<"f", <<NL, TAB, HighText, NL>> >> >>


\* the number of tab characters the line starts with
RECURSIVE LeadingTabs(_)
LeadingTabs(s) ==
    IF s # <<>> /\ s[1] = TAB THEN 1 + LeadingTabs(Tail(s)) ELSE 0

\* the line after its leading tabs
AfterTabs(s) == SubSeq(s, LeadingTabs(s) + 1, Len(s))

\* C8 as stated: expandTabs replaces each tab of the leading run of tabs by
\* tabSize spaces and copies every byte from the first non-tab on unchanged:
\* expandTabs(tab^k + rest) = space^(k * tabSize) + rest.
C8_ExpandLeadingTabsOnly ==
    lpc = "expanded"
        => res = Repeat(SPACE, LeadingTabs(str) * tabSize) \o AfterTabs(str)

\* C6 as stated, for tab sizes >= 1: a line of k >= 0 tabs followed by content
\* that does not start with a space or a tab is restored by expandTabs followed
\* by contractTabs.
C6_RoundTrip ==
    (lpc = "roundtrip" /\ tabSize >= 1
        /\ (AfterTabs(str) # <<>> => AfterTabs(str)[1] # SPACE))
        => res = str

====
